---- MODULE Spec2Model ----
(***************************************************************************)
(* seq_stats (src/src/main.rs): a FASTQ stream, optionally gzip-framed, is *)
(* read record by record; the length and the GC percentage of every record *)
(* are accumulated in two frequency tables, the records are optionally     *)
(* echoed to stdout, and the summary is written to the stats file.         *)
(*                                                                         *)
(* Bytes are integers 0..255, byte strings are sequences of bytes.  The    *)
(* calls main.rs makes into bio::io::fastq (Reader::read, Writer::         *)
(* write_record), std::io (BufReader::fill_buf, read_line) and flate2      *)
(* (MultiGzDecoder) are modelled at their call sites by what those calls   *)
(* do to the bytes.                                                        *)
(***************************************************************************)
EXTENDS Integers, Sequences, FiniteSets, TLC

\* ------------------------------------------------------------------ bytes
NL == 10
SP == 32
AT == 64
PLUS == 43
GZ_MAGIC == <<31, 139>>

WhiteSpace == {9, 10, 11, 12, 13, 32}

\* b == b'G' || b == b'g' || b == b'C' || b == b'c'
IsGC(b) == b \in {71, 103, 67, 99}

RECURSIVE Flatten(_)
\* The byte stream of a list of lines, each terminated by a newline.
Flatten(ls) == IF ls = <<>> THEN <<>> ELSE Head(ls) \o <<NL>> \o Flatten(Tail(ls))

StartsWith(s, p) == Len(s) >= Len(p) /\ SubSeq(s, 1, Len(p)) = p

RECURSIVE TrimEnd(_)
\* str::trim_end: trailing white space removed.
TrimEnd(s) ==
  IF s # <<>> /\ s[Len(s)] \in WhiteSpace THEN TrimEnd(SubSeq(s, 1, Len(s) - 1)) ELSE s

IsPrefix(p, s) == Len(p) <= Len(s) /\ SubSeq(s, 1, Len(p)) = p

\* ------------------------------------------------- f64 arithmetic (line 91)
\* An f64 > 0 is [a, b, c, e]: its 53-bit significand is a * 2^40 + b * 2^20 + c
\* with 2^12 <= a < 2^13 and b, c < 2^20 (three limbs, so that every
\* intermediate product stays a machine integer), and its value is the
\* significand times 2^e.  Zero is F64Zero.  Lengths up to 2^10 are covered.
MantBits == 53
Limb == 2^20
TopLo == 2^12
F64Zero == [a |-> 0, b |-> 0, c |-> 0, e |-> 0]

\* The significand plus one unit in the last place (round up), renormalised.
F64NextUp(f) ==
  LET c1 == f.c + 1
      b1 == f.b + (IF c1 = Limb THEN 1 ELSE 0)
      a1 == f.a + (IF b1 = Limb THEN 1 ELSE 0)
  IN IF a1 = 2 * TopLo THEN [a |-> TopLo, b |-> 0, c |-> 0, e |-> f.e + 1]
     ELSE [a |-> a1, b |-> b1 % Limb, c |-> c1 % Limb, e |-> f.e]

RECURSIVE DivNorm(_, _, _)
\* The dividend doubled until the quotient is in [1, 2): <<r, doublings>>.
DivNorm(r, d, k) == IF r >= d THEN <<r, k>> ELSE DivNorm(2 * r, d, k + 1)

\* gc_count as f64 / len as f64, for 0 < g <= l: the quotient to 53 bits by
\* long division, rounded to nearest, ties to even.
F64Div(g, l) ==
  LET nk == DivNorm(g, l, 0)
      ta == nk[1] * TopLo
      tb == (ta % l) * Limb
      tc == (tb % l) * Limb
      q  == [a |-> ta \div l, b |-> tb \div l, c |-> tc \div l,
             e |-> 0 - nk[2] - (MantBits - 1)]
      r2 == 2 * (tc % l)
      up == r2 > l \/ (r2 = l /\ q.c % 2 = 1)
  IN IF up THEN F64NextUp(q) ELSE q

\* f * 100.0: the exact product, then its top 53 bits rounded to nearest, ties
\* to even.
F64Mul100(f) ==
  IF f = F64Zero THEN F64Zero
  ELSE LET pc == f.c * 100
           pb == f.b * 100 + (pc \div Limb)
           pa == f.a * 100 + (pb \div Limb)
           lb == pb % Limb
           lc == pc % Limb
           \* pa has 19 or 20 bits: 6 or 7 bits too many
           d  == IF pa >= 128 * TopLo THEN 7 ELSE 6
           sh == 2^d
           q  == [a |-> pa \div sh,
                  b |-> (lb \div sh) + (pa % sh) * (Limb \div sh),
                  c |-> (lc \div sh) + (lb % sh) * (Limb \div sh),
                  e |-> f.e + d]
           lo == lc % sh
           up == 2 * lo > sh \/ (2 * lo = sh /\ q.c % 2 = 1)
       IN IF up THEN F64NextUp(q) ELSE q

\* f64::round (half away from zero) followed by `as u8`, for 0 <= f < 128:
\* the integer part and the first fraction bit both lie in the top limb.
F64RoundU8(f) ==
  IF f = F64Zero THEN 0
  ELSE LET ib == MantBits + f.e    \* bits left of the binary point
       IN IF ib < 0 THEN 0
          ELSE (f.a \div 2^(13 - ib)) + ((f.a \div 2^(12 - ib)) % 2)

\* seq.iter().filter(..).count()
gc_count_of(seq) == Cardinality({i \in 1..Len(seq) : IsGC(seq[i])})

\* ((gc_count as f64 / len as f64) * 100.0).round() as u8
\* (0/0 is NaN, and NaN as u8 is 0.)
gc_percent_of(gc_count, len) ==
  IF len = 0 \/ gc_count = 0 THEN 0 ELSE F64RoundU8(F64Mul100(F64Div(gc_count, len)))

\* ------------------------------------------- gzip framing (lines 3, 26)
\* A gzip member is the magic, the deflated body, the end-of-stream mark and
\* the trailer.  The body is modelled byte by byte (a text byte b < 128
\* deflates to b + 128), the mark as 0 and the trailer as the length mod 128.
Deflate(b) == b + 128
Inflate(b) == b - 128
GzEncode(t) ==
  GZ_MAGIC \o [i \in 1..Len(t) |-> Deflate(t[i])] \o <<0, Len(t) % 128>>

RECURSIVE InflateBody(_, _)
\* The body from position i on: <<text, position after the body>>.
InflateBody(z, i) ==
  IF i <= Len(z) /\ z[i] >= 128
  THEN LET r == InflateBody(z, i + 1) IN <<<<Inflate(z[i])>> \o r[1], r[2]>>
  ELSE <<<<>>, i>>

RECURSIVE GzDecode(_)
\* MultiGzDecoder over the whole source: the bytes it delivers and how the
\* stream ends: "eof" (Ok(0)), "UnexpectedEof" (the source ends inside a
\* member) or "InvalidInput" (no gzip header, a corrupt body or trailer).
GzDecode(z) ==
  IF z = <<>> THEN [data |-> <<>>, end |-> "eof"]
  ELSE IF Len(z) < 2 THEN [data |-> <<>>, end |-> "UnexpectedEof"]
  ELSE IF ~StartsWith(z, GZ_MAGIC) THEN [data |-> <<>>, end |-> "InvalidInput"]
  ELSE LET r == InflateBody(z, 3)
           t == r[1]
           i == r[2]
       IN IF i + 1 > Len(z) THEN [data |-> t, end |-> "UnexpectedEof"]
          ELSE IF z[i] # 0 \/ z[i + 1] # Len(t) % 128
               THEN [data |-> t, end |-> "InvalidInput"]
          ELSE LET more == GzDecode(SubSeq(z, i + 2, Len(z)))
               IN [data |-> t \o more.data, end |-> more.end]

\* ------------------------------------------- open_maybe_gzipped (11-30)
Min(m, n) == IF m <= n THEN m ELSE n

\* buf_reader.fill_buf(): one read of the source, which delivers n >= 1 bytes
\* (fewer when the source is shorter), none of them consumed.
fill_buf(source, n) == SubSeq(source, 1, Min(n, Len(source)))

\* buffer.starts_with(&[0x1f, 0x8b])
is_gzipped_of(source, n) == StartsWith(fill_buf(source, n), GZ_MAGIC)

\* Variant: the two magic bytes are read out of the buffer (consumed).
buf_reader_Mut(source, n) ==
  [buf   |-> fill_buf(source, n),
   pos   |-> Min(2, Len(fill_buf(source, n))),
   inner |-> SubSeq(source, Len(fill_buf(source, n)) + 1, Len(source))]
\* lines 18-21: the BufReader after fill_buf: the bytes of the first read sit
\* in its buffer, none of them consumed (pos 0); the others are still in the
\* source.
buf_reader(source, n) ==
  [buf   |-> fill_buf(source, n),
   pos   |-> 0,
   inner |-> SubSeq(source, Len(fill_buf(source, n)) + 1, Len(source))]

\* What a reader of the BufReader gets: the unconsumed part of the buffer,
\* then the rest of the source.
Remaining(br) == SubSeq(br.buf, br.pos + 1, Len(br.buf)) \o br.inner

\* The stream open_maybe_gzipped returns: the decoder over the BufReader, or
\* the BufReader itself.
open_maybe_gzipped(source, n) ==
  IF is_gzipped_of(source, n) THEN GzDecode(Remaining(buf_reader(source, n)))
  ELSE [data |-> Remaining(buf_reader(source, n)), end |-> "eof"]

\* --------------------------------- BufRead::read_line (under reader.read)
\* One line from position p: the bytes up to and including the next newline,
\* or up to the end of the data; Ok(0) is the empty line.  The error the
\* stream ends with is returned when the data run out before a newline; a
\* byte >= 128 is not UTF-8 text here (InvalidData).
read_line(input, p) ==
  LET n   == Len(input.data)
      nls == {j \in p..n : input.data[j] = NL}
      q   == IF nls = {} THEN n ELSE CHOOSE j \in nls : \A k \in nls : j <= k
      ln  == SubSeq(input.data, p, q)
  IN IF nls = {} /\ input.end # "eof" THEN [res |-> input.end, line |-> <<>>, pos |-> p]
     ELSE IF \E j \in 1..Len(ln) : ln[j] >= 128
          THEN [res |-> "InvalidData", line |-> <<>>, pos |-> p]
     ELSE [res |-> "ok", line |-> ln, pos |-> q + 1]

\* ------------------------------- bio::io::fastq Reader::read (line 65)
\* Record::new() / record.clear()
EmptyRecord == [id |-> <<>>, desc |-> <<>>, seq |-> <<>>, qual |-> <<>>]

\* line_buffer[1..].trim_end().splitn(2, ' '): the id up to the first space,
\* and the description after it (<<>> is None, <<d>> is Some(d)).
HeaderFields(line) ==
  LET h   == TrimEnd(Tail(line))
      sps == {j \in 1..Len(h) : h[j] = SP}
      f   == IF sps = {} THEN 0 ELSE CHOOSE j \in sps : \A k \in sps : j <= k
  IN IF f = 0 THEN [id |-> h, desc |-> <<>>]
     ELSE [id |-> SubSeq(h, 1, f - 1), desc |-> <<SubSeq(h, f + 1, Len(h))>>]

RECURSIVE SeqLines(_, _, _, _)
\* while !line_buffer.is_empty() && !line_buffer.starts_with('+'): the line is
\* appended to the sequence and the next line is read.
SeqLines(input, l, seq, lines_read) ==
  IF l.res # "ok" THEN [res |-> l.res, seq |-> seq, lines_read |-> lines_read, pos |-> l.pos]
  ELSE IF l.line = <<>> \/ l.line[1] = PLUS
       THEN [res |-> "ok", seq |-> seq, lines_read |-> lines_read, pos |-> l.pos]
  ELSE SeqLines(input, read_line(input, l.pos), seq \o TrimEnd(l.line), lines_read + 1)

RECURSIVE QualLines(_, _, _, _)
\* for _ in 0..lines_read: one line is read and appended to the qualities.
QualLines(input, p, qual, lines_left) ==
  IF lines_left = 0 THEN [res |-> "ok", qual |-> qual, pos |-> p]
  ELSE LET l == read_line(input, p)
       IN IF l.res # "ok" THEN [res |-> l.res, qual |-> qual, pos |-> l.pos]
          ELSE QualLines(input, l.pos, qual \o TrimEnd(l.line), lines_left - 1)

\* reader.read(&mut record): [res, record, pos].  res is "ok" (an empty
\* record at the end of the input), "MissingAt", "IncompleteRecord", or the
\* kind of the I/O error under ReadError.
FastqRead(input, p) ==
  LET l1 == read_line(input, p)
  IN IF l1.res # "ok" THEN [res |-> l1.res, record |-> EmptyRecord, pos |-> l1.pos]
     ELSE IF l1.line = <<>> THEN [res |-> "ok", record |-> EmptyRecord, pos |-> l1.pos]
     ELSE IF l1.line[1] # AT THEN [res |-> "MissingAt", record |-> EmptyRecord, pos |-> l1.pos]
     ELSE LET h  == HeaderFields(l1.line)
              s  == SeqLines(input, read_line(input, l1.pos), <<>>, 0)
              q  == QualLines(input, s.pos, <<>>, s.lines_read)
              r  == [id |-> h.id, desc |-> h.desc, seq |-> s.seq, qual |-> q.qual]
          IN IF s.res # "ok" THEN [res |-> s.res, record |-> r, pos |-> s.pos]
             ELSE IF q.res # "ok" THEN [res |-> q.res, record |-> r, pos |-> q.pos]
             ELSE IF q.qual = <<>> THEN [res |-> "IncompleteRecord", record |-> r, pos |-> q.pos]
             ELSE [res |-> "ok", record |-> r, pos |-> q.pos]

\* ------------------------- bio::io::fastq Writer::write_record (line 96)
write_record(r) ==
  <<AT>> \o r.id \o (IF r.desc = <<>> THEN <<>> ELSE <<SP>> \o r.desc[1]) \o <<NL>>
  \o r.seq \o <<NL, PLUS, NL>> \o r.qual \o <<NL>>

\* --------------------------------------------- the loop body (85-93)
\* *map.entry(k).or_insert(0) += 1
\* Variant: the count of a key already present is left as it is.
Incr_Mut(map, k) ==
  IF k \in DOMAIN map THEN map ELSE map @@ (k :> 1)
Incr(map, k) ==
  IF k \in DOMAIN map THEN [map EXCEPT ![k] = @ + 1] ELSE map @@ (k :> 1)

EmptyMap == [k \in {} |-> 0]

RECURSIVE SumOver(_, _)
SumOver(map, keys) ==
  IF keys = {} THEN 0
  ELSE LET k == CHOOSE j \in keys : TRUE IN map[k] + SumOver(map, keys \ {k})
\* sum(map.values())
Sum(map) == SumOver(map, DOMAIN map)

\* ---------------------------------------------------------- the inputs
MaxGroups == 3
MaxBad == 1
MaxFirstRead == 2
MaxSeqLen == 40

HdrR == <<64, 114>>             \* @r
HdrSD == <<64, 115, 32, 100>>   \* @s d
SeqGC == <<71, 67>>             \* GC
SeqgAN == <<103, 65, 78>>       \* gAN
Sep == <<43>>                   \* +
Qual2 == <<33, 33>>             \* !!
Qual3 == <<33, 33, 33>>         \* !!!

\* Complete four-line records.
GoodGroups == { <<HdrR, SeqGC, Sep, Qual2>>, <<HdrSD, SeqgAN, Sep, Qual3>> }
\* Groups of lines that are no complete record: a quality line of another
\* length, no '+' on the separator line, no '@' on the header line, a record
\* cut after 1, 2 or 3 lines, a blank line, a record with an empty sequence.
BadGroups ==
  { <<HdrR, SeqGC, Sep, Qual3>>,
    <<HdrR, SeqGC, Qual2, Qual2>>,
    <<<<114>>, SeqGC, Sep, Qual2>>,
    <<HdrR>>, <<HdrR, SeqGC>>, <<HdrR, SeqGC, Sep>>,
    << <<>> >>,
    <<HdrR, <<>>, Sep, Qual2>> }

RECURSIVE Concat(_)
Concat(ss) == IF ss = <<>> THEN <<>> ELSE Head(ss) \o Concat(Tail(ss))

GroupSeqs ==
  { gs \in UNION { [1..n -> GoodGroups \cup BadGroups] : n \in 0..MaxGroups } :
      Cardinality({i \in DOMAIN gs : gs[i] \in BadGroups}) <= MaxBad }

\* How the text reaches the program: as it is, as a gzip member, or as a gzip
\* member that ends early (cut bytes short of its end).
Framings == { [gz |-> FALSE, cut |-> 0], [gz |-> TRUE, cut |-> 0],
              [gz |-> TRUE, cut |-> 2], [gz |-> TRUE, cut |-> 3] }

Source(ls, fr) ==
  IF fr.gz THEN LET z == GzEncode(Flatten(ls)) IN SubSeq(z, 1, Len(z) - fr.cut)
  ELSE Flatten(ls)

\* The stats file before File::create.
NoFile == [created |-> FALSE, written |-> <<>>]

\* ------------------------------------------------------------- the state
VARIABLES
  lines,          \* the text of the input, line by line (what was fed in)
  framing,        \* how it is framed (an element of Framings)
  source,         \* the bytes of the input file or of stdin
  first_read,     \* how many bytes the source delivers on its first read
  out_seqs,       \* --seqs-to-stdout
  pc,             \* "start", "loop", "finalize", "done", "err"
  is_gzipped,     \* the decision open_maybe_gzipped took
  input,          \* the stream open_maybe_gzipped returned: [data, end]
  pos,            \* the reader's position in input.data
  read_res,       \* the outcome of the last reader.read ("none" before it)
  total_records, gc_distrib, len_distrib,
  observed,       \* the records that went through the loop body, in order
  stdout,         \* the bytes written to stdout
  stats_file,     \* [created: whether File::create made it,
                  \*  written: the summaries serialized to it, in order]
  err,            \* "none", or the error calc_read_stats returned: "open",
                  \* "emit", "create", "serialize" (I/O errors by origin),
                  \* the incomplete-record message, or the reader's error
  stderr,         \* the diagnostics written to stderr, in order
  main_ret        \* "running", or what main returned: "Ok", "Err"

vars == <<lines, framing, source, first_read, out_seqs, pc, is_gzipped,
          input, pos, read_res, total_records, gc_distrib, len_distrib, observed, stdout,
          stats_file, err, stderr, main_ret>>

inputs == <<lines, framing, source, first_read, out_seqs>>
accs == <<total_records, gc_distrib, len_distrib, observed>>

Init ==
  /\ \E gs \in GroupSeqs : lines = Concat(gs)
  /\ framing \in Framings
  /\ source = Source(lines, framing)
  /\ first_read \in 1..MaxFirstRead
  /\ (~framing.gz => first_read = MaxFirstRead)
  /\ out_seqs \in BOOLEAN
  /\ pc = "start"
  /\ is_gzipped = FALSE
  /\ input = [data |-> <<>>, end |-> "eof"]
  /\ pos = 1
  /\ read_res = "none"
  /\ total_records = 0
  /\ gc_distrib = EmptyMap
  /\ len_distrib = EmptyMap
  /\ observed = <<>>
  /\ stdout = <<>>
  /\ stats_file = NoFile
  /\ err = "none"
  /\ stderr = <<>>
  /\ main_ret = "running"

\* ------------------------------------------------------ calc_read_stats
\* The input path given on the command line: "-" (stdin).
in_seq_fpath == <<45>>

\* line 44: println!("Calculating read stats for file: {}", in_seq_fpath),
\* the line written to stdout before the input is opened.
Banner ==
  <<67, 97, 108, 99, 117, 108, 97, 116, 105, 110, 103, 32, 114, 101, 97, 100,
    32, 115, 116, 97, 116, 115, 32, 102, 111, 114, 32, 102, 105, 108, 101, 58,
    32>> \o in_seq_fpath \o <<NL>>

\* lines 44-46: the banner is printed and open_maybe_gzipped(in_seq_fpath)?
\* succeeds.
Open ==
  /\ pc = "start"
  /\ stdout' = stdout \o Banner
  /\ is_gzipped' = is_gzipped_of(source, first_read)
  /\ input' = open_maybe_gzipped(source, first_read)
  /\ pc' = "loop"
  /\ UNCHANGED <<inputs, pos, read_res, accs, stats_file, err, stderr, main_ret>>

\* lines 15, 21, 44-46: the banner is printed, File::open or fill_buf fails
\* and `?` returns the error.
OpenFail ==
  /\ pc = "start"
  /\ stdout' = stdout \o Banner
  /\ pc' = "err"
  /\ err' = "open"
  /\ UNCHANGED <<inputs, is_gzipped, input, pos, read_res, accs, stats_file, stderr, main_ret>>

\* line 65
read_result == FastqRead(input, pos)

\* Variant: the UnexpectedEof arm retries the read (`continue`) instead of
\* leaving the loop.
ReadUnexpectedEof_Mut ==
  /\ pc = "loop"
  /\ read_result.res = "UnexpectedEof"
  /\ pc' = "loop"
  /\ pos' = read_result.pos
  /\ read_res' = read_result.res
  /\ UNCHANGED <<inputs, is_gzipped, input, accs, stdout, stats_file, err, stderr, main_ret>>

\* lines 68-72: ReadError of kind UnexpectedEof leaves the loop.
ReadUnexpectedEof ==
  /\ pc = "loop"
  /\ read_result.res = "UnexpectedEof"
  /\ pc' = "finalize"
  /\ pos' = read_result.pos
  /\ read_res' = read_result.res
  /\ UNCHANGED <<inputs, is_gzipped, input, accs, stdout, stats_file, err, stderr, main_ret>>

\* lines 73-75
ReadIncomplete ==
  /\ pc = "loop"
  /\ read_result.res = "IncompleteRecord"
  /\ pc' = "err"
  /\ err' = "Encountered incomplete FASTQ record"
  /\ pos' = read_result.pos
  /\ read_res' = read_result.res
  /\ UNCHANGED <<inputs, is_gzipped, input, accs, stdout, stats_file, stderr, main_ret>>

\* line 76
ReadOtherError ==
  /\ pc = "loop"
  /\ read_result.res \notin {"ok", "UnexpectedEof", "IncompleteRecord"}
  /\ pc' = "err"
  /\ err' = read_result.res
  /\ pos' = read_result.pos
  /\ read_res' = read_result.res
  /\ UNCHANGED <<inputs, is_gzipped, input, accs, stdout, stats_file, stderr, main_ret>>

\* Variant: the emptiness test comes after the aggregation; the record is
\* counted before the loop is left.
EmptySeqBreak_Mut ==
  /\ pc = "loop"
  /\ read_result.res = "ok"
  /\ read_result.record.seq = <<>>
  /\ gc_distrib' = Incr(gc_distrib, gc_percent_of(0, 0))
  /\ len_distrib' = Incr(len_distrib, 0)
  /\ observed' = Append(observed, read_result.record)
  /\ total_records' = total_records + 1
  /\ pc' = "finalize"
  /\ pos' = read_result.pos
  /\ read_res' = read_result.res
  /\ UNCHANGED <<inputs, is_gzipped, input, stdout, stats_file, err, stderr, main_ret>>

\* lines 81-83: an empty sequence leaves the loop.
EmptySeqBreak ==
  /\ pc = "loop"
  /\ read_result.res = "ok"
  /\ read_result.record.seq = <<>>
  /\ pc' = "finalize"
  /\ pos' = read_result.pos
  /\ read_res' = read_result.res
  /\ UNCHANGED <<inputs, is_gzipped, input, accs, stdout, stats_file, err, stderr, main_ret>>

\* lines 85-93: the record's length and GC percentage are counted.
gc_percent_rec(r) == gc_percent_of(gc_count_of(r.seq), Len(r.seq))
Aggregate(r) ==
  /\ gc_distrib' = Incr(gc_distrib, gc_percent_rec(r))
  /\ len_distrib' = Incr(len_distrib, Len(r.seq))
  /\ observed' = Append(observed, r)

\* lines 95-97: what reaches stdout when the record is written.
\* Variant: the record is written whatever out_seqs says.
Emitted_Mut(r) == write_record(r)
Emitted(r) == IF out_seqs THEN write_record(r) ELSE <<>>

\* lines 85-98: a record is counted, echoed if asked, and the loop goes on.
ObserveRecord ==
  /\ pc = "loop"
  /\ read_result.res = "ok"
  /\ read_result.record.seq # <<>>
  /\ Aggregate(read_result.record)
  /\ stdout' = stdout \o Emitted(read_result.record)
  /\ total_records' = total_records + 1
  /\ pos' = read_result.pos
  /\ read_res' = read_result.res
  /\ UNCHANGED <<inputs, is_gzipped, input, pc, stats_file, err, stderr, main_ret>>

\* Variant: the write error is dropped, the record counted and the loop goes on.
EmitFail_Mut ==
  /\ pc = "loop"
  /\ out_seqs
  /\ read_result.res = "ok"
  /\ read_result.record.seq # <<>>
  /\ Aggregate(read_result.record)
  /\ stdout' = stdout
  /\ total_records' = total_records + 1
  /\ err' = "emit"
  /\ pos' = read_result.pos
  /\ read_res' = read_result.res
  /\ UNCHANGED <<inputs, is_gzipped, input, pc, stats_file, stderr, main_ret>>

\* line 96: write_record fails after part of the record was written, and `?`
\* returns the error; total_records is not incremented.
EmitFail ==
  /\ pc = "loop"
  /\ out_seqs
  /\ read_result.res = "ok"
  /\ read_result.record.seq # <<>>
  /\ Aggregate(read_result.record)
  /\ \E k \in {0, Len(read_result.record.id) + 2} :
       stdout' = stdout \o SubSeq(write_record(read_result.record), 1, k)
  /\ pc' = "err"
  /\ err' = "emit"
  /\ pos' = read_result.pos
  /\ read_res' = read_result.res
  /\ UNCHANGED <<inputs, is_gzipped, input, total_records, stats_file, stderr, main_ret>>

\* lines 101-105
stats == [total_records |-> total_records, gc_distrib |-> gc_distrib,
          len_distrib |-> len_distrib]

\* lines 108-112: the stats file is created and the summary written to it.
WriteStats ==
  /\ pc = "finalize"
  /\ stats_file' = [created |-> TRUE, written |-> Append(stats_file.written, stats)]
  /\ pc' = "done"
  /\ UNCHANGED <<inputs, is_gzipped, input, pos, read_res, accs, stdout, err, stderr, main_ret>>

\* line 108: File::create fails.
CreateFail ==
  /\ pc = "finalize"
  /\ pc' = "err"
  /\ err' = "create"
  /\ UNCHANGED <<inputs, is_gzipped, input, pos, read_res, accs, stdout, stats_file, stderr, main_ret>>

\* line 110: to_writer_pretty fails on the created file.
SerializeFail ==
  /\ pc = "finalize"
  /\ stats_file' = [stats_file EXCEPT !.created = TRUE]
  /\ pc' = "err"
  /\ err' = "serialize"
  /\ UNCHANGED <<inputs, is_gzipped, input, pos, read_res, accs, stdout, stderr, main_ret>>

\* ------------------------------------------------------------------ main
\* Variant: main propagates the error (`calc_read_stats(...)?`), and the
\* runtime reports the returned error on stderr.
MainReturn_Mut ==
  /\ pc \in {"done", "err"}
  /\ main_ret = "running"
  /\ main_ret' = IF err = "none" THEN "Ok" ELSE "Err"
  /\ stderr' = IF err = "none" THEN stderr ELSE Append(stderr, err)
  /\ UNCHANGED <<inputs, pc, is_gzipped, input, pos, read_res, accs, stdout,
                 stats_file, err>>

\* lines 145-147: `let _ = calc_read_stats(...)` drops the result, whatever it
\* is, and main returns Ok(()); nothing is written to stderr.
MainReturn ==
  /\ pc \in {"done", "err"}
  /\ main_ret = "running"
  /\ main_ret' = "Ok"
  /\ UNCHANGED <<inputs, pc, is_gzipped, input, pos, read_res, accs, stdout,
                 stats_file, err, stderr>>

Next ==
  \/ Open \/ OpenFail
  \/ ReadUnexpectedEof \/ ReadIncomplete \/ ReadOtherError \/ EmptySeqBreak
  \/ ObserveRecord \/ EmitFail
  \/ WriteStats \/ CreateFail \/ SerializeFail
  \/ MainReturn

Spec == Init /\ [][Next]_vars

\* ---------------------------------------------- the aggregation alone
\* One record with a sequence of l bytes, g of them the GC byte gcb, at the
\* head or at the tail of the sequence, the others the byte oth.
MkSeq(l, g, gcb, oth, head) ==
  [i \in 1..l |-> IF (head /\ i <= g) \/ (~head /\ i > l - g) THEN gcb ELSE oth]

GCBytes == {71, 103, 67, 99}    \* G g C c
OtherBytes == {65, 84, 78}      \* A T N

InitGC ==
  /\ \E l \in 1..MaxSeqLen, gcb \in GCBytes, oth \in OtherBytes, head \in BOOLEAN :
       \E g \in 0..l : lines = <<MkSeq(l, g, gcb, oth, head)>>
  /\ framing = [gz |-> FALSE, cut |-> 0]
  /\ source = <<>>
  /\ first_read = 1
  /\ out_seqs = FALSE
  /\ pc = "observe"
  /\ is_gzipped = FALSE
  /\ input = [data |-> <<>>, end |-> "eof"]
  /\ pos = 1
  /\ read_res = "ok"
  /\ total_records = 0
  /\ gc_distrib = EmptyMap
  /\ len_distrib = EmptyMap
  /\ observed = <<>>
  /\ stdout = <<>>
  /\ stats_file = NoFile
  /\ err = "none"
  /\ stderr = <<>>
  /\ main_ret = "running"

\* lines 85-98 applied to a record whose sequence is lines[1].
ObserveOne ==
  /\ pc = "observe"
  /\ Aggregate([id |-> <<>>, desc |-> <<>>, seq |-> lines[1], qual |-> lines[1]])
  /\ total_records' = total_records + 1
  /\ pc' = "observed"
  /\ UNCHANGED <<inputs, is_gzipped, input, pos, read_res, stdout, stats_file, err, stderr, main_ret>>

SpecGC == InitGC /\ [][ObserveOne]_vars

\* ------------------------------------------------- the input, as text
\* The input cut into groups of four lines, independently of the reader.
NumChunks(ls) == Len(ls) \div 4
Chunk(ls, i) == SubSeq(ls, 4 * i - 3, 4 * i)

\* A complete record: '@' header, a non-empty sequence line that is no
\* separator, '+' separator, a quality line as long as the sequence.
WellFormedChunk(c) ==
  /\ c[1] # <<>> /\ c[1][1] = AT
  /\ c[2] # <<>> /\ c[2][1] # PLUS
  /\ c[3] # <<>> /\ c[3][1] = PLUS
  /\ Len(c[4]) = Len(c[2])

WellFormed(ls) ==
  /\ Len(ls) % 4 = 0
  /\ \A i \in 1..NumChunks(ls) : WellFormedChunk(Chunk(ls, i))

\* A well-formed stream: well-formed text, framed completely.
WellFormedStream == WellFormed(lines) /\ framing.cut = 0

\* ------------------------------------------------------------------ C1
\* C1: at the top of every loop iteration the counts of len_distrib and of
\* gc_distrib both sum to total_records; and when the summary of a well-formed
\* stream is finalized, that holds too and total_records is the number of
\* complete four-line records of the input.
C1_CountsAgree ==
  /\ pc = "loop" =>
       Sum(len_distrib) = total_records /\ Sum(gc_distrib) = total_records
  /\ (pc \in {"finalize", "done"} /\ WellFormedStream) =>
       /\ total_records = NumChunks(lines)
       /\ Sum(len_distrib) = total_records /\ Sum(gc_distrib) = total_records
  /\ (pc = "done" /\ WellFormedStream) =>
       /\ Len(stats_file.written) = 1
       /\ stats_file.written[1].total_records = NumChunks(lines)
       /\ Sum(stats_file.written[1].len_distrib) = NumChunks(lines)
       /\ Sum(stats_file.written[1].gc_distrib) = NumChunks(lines)

\* A gzip-framed well-formed stream of three records, two of them equal, was
\* summarised.
C1_Witness ==
  /\ pc = "done" /\ WellFormedStream /\ framing.gz
  /\ total_records = 3 /\ Cardinality(DOMAIN len_distrib) = 2

\* ------------------------------------------------------------------ C2
\* The first group of four lines that is no properly marked complete record:
\* its header does not start with '@', its separator does not start with '+',
\* or the input ends inside it.  0 when there is none.
MarkedChunk(c) ==
  /\ c[1] # <<>> /\ c[1][1] = AT
  /\ c[3] # <<>> /\ c[3][1] = PLUS

FirstMalformed(ls) ==
  LET bad == {i \in 1..NumChunks(ls) : ~MarkedChunk(Chunk(ls, i))}
  IN IF bad # {} THEN CHOOSE i \in bad : \A j \in bad : i <= j
     ELSE IF Len(ls) % 4 # 0 THEN NumChunks(ls) + 1
     ELSE 0

\* No record before the i-th has an empty sequence line (which ends the loop).
NoEmptySeqBefore(ls, i) ==
  \A j \in 1..Min(i - 1, NumChunks(ls)) : Chunk(ls, j)[2] # <<>>

\* C2: a malformed record (no '@' on the header, no '+' on the separator, or
\* incomplete) aborts the run at that record: the loop is never left normally,
\* and no record at or after the malformed one is counted or emitted.
C2_MalformedAborts ==
  (/\ framing.cut = 0 /\ FirstMalformed(lines) # 0
   /\ NoEmptySeqBefore(lines, FirstMalformed(lines))) =>
    /\ pc \notin {"finalize", "done"}
    /\ total_records < FirstMalformed(lines)
    /\ Len(observed) < FirstMalformed(lines)

\* ------------------------------------------------------------------ C3
\* The text ends inside a record: complete records, then 1 to 3 lines.
EndsMidRecord(ls) ==
  /\ Len(ls) % 4 # 0
  /\ \A i \in 1..NumChunks(ls) : WellFormedChunk(Chunk(ls, i))
  /\ ls[4 * NumChunks(ls) + 1] # <<>> /\ ls[4 * NumChunks(ls) + 1][1] = AT

\* C3: an input that ends inside a record is never a clean end: the loop is
\* not left normally and no summary is written, also when the end of the
\* input is signalled as UnexpectedEof.
C3_TruncationIsError ==
  EndsMidRecord(lines) => (pc \notin {"finalize", "done"} /\ stats_file = NoFile)

\* ------------------------------------------------------------------ C4
\* C4: the stats file is created or written only after the loop ended at the
\* end of the stream, not after a fatal error (open failure, read error,
\* malformed record, emit failure); what is written is the summary as it was
\* built, and the accumulators still equal it.
C4_SummaryOnlyOnCleanEnd ==
  /\ stats_file # NoFile => read_res = "ok"
  /\ err \in {"open", "emit", "Encountered incomplete FASTQ record",
              "MissingAt", "InvalidData", "InvalidInput"} => stats_file = NoFile
  /\ Len(stats_file.written) <= 1
  /\ pc = "done" => stats_file.written = <<stats>>

\* ------------------------------------------------------------------ C5
\* C5: every record that reaches the aggregation step has a quality line as
\* long as its sequence line.
C5_QualityLengthChecked ==
  \A i \in DOMAIN observed : Len(observed[i].qual) = Len(observed[i].seq)

\* ------------------------------------------------------------------ C6
\* A well-formed text followed by one or more empty lines.
BlankTail(ls) ==
  \E n \in 0..(Len(ls) - 1) :
     /\ WellFormed(SubSeq(ls, 1, n))
     /\ \A j \in (n + 1)..Len(ls) : ls[j] = <<>>

\* C6: on a well-formed stream followed by empty lines the reader reports no
\* error: the run is not aborted by the trailing blank lines.
C6_TrailingBlankLinesOk ==
  (BlankTail(lines) /\ ~framing.gz) =>
     err \in {"none", "open", "emit", "create", "serialize"}

\* ------------------------------------------------------------------ C7
\* The integer nearest to 100 * g / l, ties rounded up.
NearestPercent(g, l) == (200 * g + l) \div (2 * l)

\* C7: the GC bucket incremented for a sequence of length L >= 1 with g bytes
\* in {G, g, C, c} is floor((200 g + L) / (2 L)); the other bytes count toward
\* L only.
C7_GcBucketIsNearest ==
  pc = "observed" =>
    LET seq == lines[1]
        g   == Cardinality({i \in 1..Len(seq) : seq[i] \in GCBytes})
    IN /\ DOMAIN gc_distrib = {NearestPercent(g, Len(seq))}
       /\ DOMAIN len_distrib = {Len(seq)}

\* ------------------------------------------------------------------ C8
\* The number of leading groups of four lines that are complete records.
LeadingWellFormed(ls) ==
  LET ok == {n \in 0..NumChunks(ls) : \A i \in 1..n : WellFormedChunk(Chunk(ls, i))}
  IN CHOOSE n \in ok : \A m \in ok : m <= n

\* A record of the input as FASTQ text: header, sequence, '+', qualities.
ChunkBytes(c) == Flatten(<<c[1], c[2], <<PLUS>>, c[4]>>)

RECURSIVE InputBytes(_, _)
\* The first n records of the input as FASTQ text.
InputBytes(ls, n) ==
  IF n = 0 THEN <<>> ELSE InputBytes(ls, n - 1) \o ChunkBytes(Chunk(ls, n))

\* What stdout holds after the banner line: the emitted records.
FastqOut == SubSeq(stdout, Len(Banner) + 1, Len(stdout))

\* C8: the records go through the loop in input order, one per iteration, and
\* with passthrough enabled the emitted records are exactly the records
\* counted so far, in input order, none reordered, duplicated or omitted
\* (followed only by the part of a record whose emission failed); with
\* passthrough disabled no record is emitted.
C8_EmittedInInputOrder ==
  LET n == Min(total_records, LeadingWellFormed(lines))
  IN /\ ~out_seqs => FastqOut = <<>>
     /\ \A i \in 1..Min(Len(observed), LeadingWellFormed(lines)) :
          /\ observed[i].seq = Chunk(lines, i)[2]
          /\ observed[i].qual = Chunk(lines, i)[4]
     /\ Len(observed) \in {total_records, total_records + 1}
     /\ out_seqs => IsPrefix(InputBytes(lines, n), FastqOut)
     /\ (out_seqs /\ err # "emit" /\ total_records <= LeadingWellFormed(lines)) =>
          FastqOut = InputBytes(lines, total_records)

\* Two different records were echoed and the run completed.
C8_Witness ==
  /\ out_seqs /\ pc = "done" /\ WellFormedStream
  /\ total_records = 2 /\ observed[1] # observed[2]
  /\ FastqOut = Flatten(lines)

\* ------------------------------------------------------------------ C9
\* C9: the stream is wrapped in the decompressor exactly when the source
\* starts with the gzip magic 0x1F 0x8B, whatever the first read delivers.
C9_GzipDetectedByMagic ==
  pc \notin {"start", "observe", "observed"} /\ err # "open" =>
    (is_gzipped <=> StartsWith(source, GZ_MAGIC))

\* ------------------------------------------------------------------ C10
\* C10: when the emission of a record fails the run ends there with the
\* error: the output written before stays (the step only appends to stdout),
\* the record is not counted, no stats file exists, and nothing follows but
\* the return of main, which reads, counts and writes nothing.
C10_EmitFailureAborts ==
  [][ /\ err' = "emit" =>
           /\ pc' = "err"
           /\ IsPrefix(stdout, stdout')
           /\ total_records' = total_records
           /\ stats_file' = NoFile
      /\ err = "emit" =>
           UNCHANGED <<pc, pos, read_res, accs, stdout, stats_file, err>> ]_vars

\* The second record's emission failed after its header had been written.
C10_Witness ==
  /\ err = "emit" /\ pc = "err" /\ total_records = 1
  /\ Len(FastqOut) > Len(write_record(observed[1]))

\* ------------------------------------------------------------------ C11
\* lines 85-98 on the accumulators of a run that echoes nothing.
observe(acc, r) ==
  [total_records |-> acc.total_records + 1,
   gc_distrib    |-> Incr(acc.gc_distrib, gc_percent_rec(r)),
   len_distrib   |-> Incr(acc.len_distrib, Len(r.seq))]

RECURSIVE read_loop(_, _, _)
\* lines 63-99 as a function of the stream: the accumulators the loop is left
\* with, or the error it returns.
read_loop(in, p, acc) ==
  LET r == FastqRead(in, p)
  IN IF r.res = "UnexpectedEof" THEN [res |-> "ok", stats |-> acc]
     ELSE IF r.res = "IncompleteRecord"
          THEN [res |-> "Encountered incomplete FASTQ record", stats |-> acc]
     ELSE IF r.res # "ok" THEN [res |-> r.res, stats |-> acc]
     ELSE IF r.record.seq = <<>> THEN [res |-> "ok", stats |-> acc]
     ELSE read_loop(in, r.pos, observe(acc, r.record))

\* lines 46-105 on the bytes src, read whole by the first read: the summary
\* of a second run of the pipeline, or its error.
run_summary(src) ==
  read_loop(open_maybe_gzipped(src, Len(src)), 1,
            [total_records |-> 0, gc_distrib |-> EmptyMap, len_distrib |-> EmptyMap])

\* C11: when a run with passthrough enabled has written its summary, a second
\* run of the pipeline on what the first wrote to stdout ends normally with a
\* summary identical to the first.
C11_RoundTripStable ==
  (out_seqs /\ pc = "done") => run_summary(stdout) = [res |-> "ok", stats |-> stats]

\* The records of the first run, without the banner line before them, give
\* the first summary again.
C11_RecordsRoundTrip ==
  (out_seqs /\ pc = "done") => run_summary(FastqOut) = [res |-> "ok", stats |-> stats]

\* The function and the state machine agree on the run's own input.
C11_SummaryAgrees ==
  (pc = "done" /\ first_read = MaxFirstRead) =>
     run_summary(source) = [res |-> "ok", stats |-> stats]

\* ------------------------------------------------------------------ C12
\* C12: main returns Ok whether calc_read_stats returned Ok or Err: once main
\* has returned, what it returned is Ok, after a malformed record or an I/O
\* failure as after a written summary.
C12_MainReturnsOk ==
  main_ret # "running" => main_ret = "Ok"

\* main returned Ok after the reader had refused a header without '@'.
C12_Witness ==
  main_ret = "Ok" /\ pc = "err" /\ err = "MissingAt" /\ stats_file = NoFile

\* ------------------------------------------------------------------ C13
\* C13: when the run has ended on a fatal error, a diagnostic describing the
\* failure has been reported, and it is the only output: nothing is on stdout
\* and no stats file exists.
C13_DiagnosticIsOnlyOutput ==
  (main_ret # "running" /\ err # "none") =>
     /\ stderr = <<err>>
     /\ stdout = <<>>
     /\ stats_file = NoFile

\* ------------------------------------------------------------------ C14
\* The first group of four lines that is a record with an empty sequence
\* line ('@' header, empty line, '+' separator, qualities), the groups before
\* it being complete records; 0 when there is none.
EmptySeqAt(ls) ==
  LET es == {i \in 1..NumChunks(ls) :
               /\ MarkedChunk(Chunk(ls, i))
               /\ Chunk(ls, i)[2] = <<>> /\ Chunk(ls, i)[4] # <<>>
               /\ \A j \in 1..(i - 1) : WellFormedChunk(Chunk(ls, j))}
  IN IF es = {} THEN 0 ELSE CHOOSE i \in es : TRUE

\* The source is opened as what it is and read to its end.
ReadAsFramed == framing.cut = 0 /\ (framing.gz => first_read >= 2)

\* C14: a record with an empty sequence ends the loop like the end of the
\* stream: it is not counted and not emitted, no record after it is counted
\* or emitted, the reader's result is no error, the summary written is the one
\* of the records before it; and no run ever observes a record of length 0,
\* so len_distrib never gets the key 0.
C14_EmptySeqEndsLoop ==
  /\ 0 \notin DOMAIN len_distrib
  /\ \A i \in DOMAIN observed : observed[i].seq # <<>>
  /\ (EmptySeqAt(lines) # 0 /\ ReadAsFramed) =>
       /\ total_records < EmptySeqAt(lines)
       /\ Len(observed) < EmptySeqAt(lines)
       /\ err \in {"none", "open", "emit", "create", "serialize"}
       /\ out_seqs => IsPrefix(FastqOut, InputBytes(lines, EmptySeqAt(lines) - 1))
       /\ pc \in {"finalize", "done"} =>
            /\ read_res = "ok"
            /\ total_records = EmptySeqAt(lines) - 1
       /\ pc = "done" =>
            /\ stats_file.written = <<stats>>
            /\ stats.total_records = EmptySeqAt(lines) - 1

\* The second of three records had an empty sequence: one record was counted
\* and echoed, and the summary written.
C14_Witness ==
  /\ EmptySeqAt(lines) = 2 /\ Len(lines) = 12 /\ ReadAsFramed
  /\ pc = "done" /\ out_seqs /\ total_records = 1
  /\ FastqOut = InputBytes(lines, 1)

\* ------------------------------------------------------------------ C15
\* C15: the peek for the gzip magic consumes nothing: after it the BufReader
\* still delivers the source from its byte 0, so the plain stream is the
\* source itself and the decompressor decodes the source from its magic bytes
\* on, whichever branch is taken and however many bytes the first read
\* delivered.
C15_PeekConsumesNothing ==
  (pc \notin {"start", "observe", "observed"} /\ err # "open") =>
     /\ Remaining(buf_reader(source, first_read)) = source
     /\ input = IF is_gzipped THEN GzDecode(source)
                ELSE [data |-> source, end |-> "eof"]

\* A gzip source was detected on a two-byte first read, decoded from its
\* first byte and its two records summarised.
C15_Witness ==
  /\ is_gzipped /\ first_read = 2 /\ Len(source) > 2
  /\ pc = "done" /\ total_records = 2
  /\ input.data = Flatten(lines)

\* ------------------------------------------------------------------ C16
\* The runs of the pipeline together with the aggregation of single records
\* of every length up to MaxSeqLen.
InitAll == Init \/ InitGC
NextAll == Next \/ ObserveOne
SpecAll == InitAll /\ [][NextAll]_vars

\* m2 is m with the count of the key k one higher (1 when k is new) and
\* every other entry as it was.
OneUp(m, m2, k) ==
  /\ DOMAIN m2 = DOMAIN m \cup {k}
  /\ m2[k] = (IF k \in DOMAIN m THEN m[k] ELSE 0) + 1
  /\ \A j \in DOMAIN m : j # k => m2[j] = m[j]

\* C16: in every step no count of either distribution decreases and no key
\* disappears; a step that observes a record raises exactly one key of
\* len_distrib (the record's length) and exactly one key of gc_distrib by
\* exactly 1 and leaves every other entry unchanged; every other step leaves
\* both as they are; every gc_distrib key is in 0..100 and every stored count
\* is at least 1.
C16_DistributionsGrow ==
  [][ /\ \A k \in DOMAIN gc_distrib :
           k \in DOMAIN gc_distrib' /\ gc_distrib'[k] >= gc_distrib[k]
      /\ \A k \in DOMAIN len_distrib :
           k \in DOMAIN len_distrib' /\ len_distrib'[k] >= len_distrib[k]
      /\ IF Len(observed') = Len(observed) + 1
         THEN /\ OneUp(len_distrib, len_distrib', Len(observed'[Len(observed')].seq))
              /\ \E k \in 0..100 : OneUp(gc_distrib, gc_distrib', k)
         ELSE UNCHANGED <<gc_distrib, len_distrib, observed>>
      /\ DOMAIN gc_distrib' \subseteq 0..100
      /\ \A k \in DOMAIN gc_distrib' : gc_distrib'[k] >= 1
      /\ \A k \in DOMAIN len_distrib' : len_distrib'[k] >= 1 ]_vars

\* Three records were observed, two of the same length and GC percentage:
\* one key of each distribution stands at 2, another at 1.
C16_Witness ==
  /\ Len(observed) = 3
  /\ \E k, j \in DOMAIN len_distrib : len_distrib[k] = 2 /\ len_distrib[j] = 1
  /\ \E k, j \in DOMAIN gc_distrib : gc_distrib[k] = 2 /\ gc_distrib[j] = 1

\* ------------------------------------------------------------------ C17
\* The run has not ended and its next step exists: the banner and the open,
\* a branch of the loop body (every result of the read has one; the branch
\* that stays in the loop is taken on a read that consumed input), the
\* writing of the summary, or the return of main.
CanStep ==
  \/ pc \in {"start", "finalize"}
  \/ pc \in {"done", "err"} /\ main_ret = "running"
  \/ /\ pc = "loop"
     /\ \/ read_result.res # "ok"
        \/ read_result.record.seq = <<>>
        \/ read_result.pos > pos

\* C17: every run terminates in one of two ways.  Until main has returned a
\* step can be taken; the steps go from the open to the loop, to the summary,
\* to the return of main and never back; a loop iteration that stays in the
\* loop has consumed at least one line of the input, which is finite, and
\* counted one record; after main's return there is no step; and the run
\* ends with the summary written and no error, or with an error returned and
\* no summary written.
C17_RunTerminates ==
  /\ [](main_ret = "running" => CanStep)
  /\ [](pos <= Len(input.data) + 1)
  /\ [][ /\ main_ret = "running"
         /\ input' = input \/ pc = "start"
         /\ pc = "start" => pc' \in {"loop", "err"}
         /\ pc = "loop" => pc' \in {"loop", "finalize", "err"}
         /\ (pc = "loop" /\ pc' = "loop") =>
              /\ pos' > pos /\ input.data[pos' - 1] = NL
              /\ total_records' = total_records + 1
         /\ pc = "finalize" => pc' \in {"done", "err"}
         /\ pc \in {"done", "err"} => (pc' = pc /\ main_ret' # "running")
         /\ main_ret' # "running" =>
              \/ pc' = "done" /\ err' = "none" /\ stats_file'.written = <<stats'>>
              \/ pc' = "err" /\ err' # "none" /\ stats_file'.written = <<>> ]_vars

\* A run went three times round the loop, left it at the end of the stream,
\* wrote the summary and main returned.
C17_Witness ==
  /\ main_ret # "running" /\ pc = "done" /\ total_records = 3
  /\ pos = Len(input.data) + 1

\* ------------------------------------------------------------------ C18
RECURSIVE RecordsOut(_, _)
\* The first n observed records as the emitter writes them.
RecordsOut(obs, n) ==
  IF n = 0 THEN <<>> ELSE RecordsOut(obs, n - 1) \o write_record(obs[n])

\* The number of observed records that stdout holds whole, in order.
FullyEmitted ==
  LET ok == {n \in 0..Len(observed) : IsPrefix(RecordsOut(observed, n), FastqOut)}
  IN CHOOSE n \in ok : \A m \in ok : m <= n

\* C18: with passthrough enabled total_records never exceeds the number of
\* records emitted whole; and when the emission of a record has failed, that
\* record is in both distributions but not in total_records and not whole on
\* stdout: the counts of len_distrib and of gc_distrib both sum to
\* total_records + 1.
C18_CountedAfterEmitted ==
  /\ out_seqs => total_records <= FullyEmitted
  /\ err = "emit" =>
       /\ out_seqs /\ pc = "err"
       /\ Len(observed) = total_records + 1
       /\ FullyEmitted = total_records
       /\ Sum(len_distrib) = total_records + 1
       /\ Sum(gc_distrib) = total_records + 1

\* The emission of the second record failed before any of its bytes was
\* written: stdout holds the first record, both distributions hold two.
C18_Witness ==
  /\ err = "emit" /\ total_records = 1 /\ Len(observed) = 2
  /\ FastqOut = write_record(observed[1])
  /\ Sum(len_distrib) = 2 /\ Sum(gc_distrib) = 2
====
